---------------------------- MODULE Spec2Model ----------------------------
(***************************************************************************)
(* A model of mobius_transformation.py: the MobiusTransform augmentation.  *)
(*                                                                         *)
(* Numbers.  The program computes in double-precision complex arithmetic.  *)
(* The model computes exactly, on a grid:                                  *)
(*   - a complex number is a pair <<re, im>> of integers;                  *)
(*   - the control points of __init__ are held in twentieths of a pixel    *)
(*     (0.5 * height is 10 * height, the literal 1 is 20), so that every   *)
(*     decimal factor of the source is an integer; the four products with  *)
(*     sin/cos are rounded to the nearest twentieth;                       *)
(*   - the result of a complex division is a fraction [n, d] of two        *)
(*     complex numbers; d = <<0, 0>> is the non-finite result (inf or nan) *)
(*     numpy gives for a division by zero.                                 *)
(***************************************************************************)
EXTENDS Integers, Sequences, FiniteSets, TLC

VARIABLES
    inst,      \* the MobiusTransform object: its fields, or "new" before __init__
    args,      \* the arguments __init__ is called with
    calls,     \* per caller: the position of its __call__ and its locals
    rng,       \* the global random source: the draws it has served so far
    probe      \* inputs and outputs of the pure functions under test

vars == <<inst, args, calls, rng, probe>>

---------------------------------------------------------------------------
(* Complex arithmetic (Python complex / numpy complex128), exact.          *)

CAdd(x, y) == <<x[1] + y[1], x[2] + y[2]>>
CSub(x, y) == <<x[1] - y[1], x[2] - y[2]>>
CMul(x, y) == <<x[1] * y[1] - x[2] * y[2], x[1] * y[2] + x[2] * y[1]>>
CNeg(x) == <<0 - x[1], 0 - x[2]>>
CZero == <<0, 0>>
COne == <<1, 0>>

(* numpy.linalg.det of a 3 x 3 complex matrix, by cofactor expansion       *)
(* along the first row.                                                    *)
Det3(m) ==
    CAdd(CSub(CMul(m[1][1], CSub(CMul(m[2][2], m[3][3]), CMul(m[2][3], m[3][2]))),
              CMul(m[1][2], CSub(CMul(m[2][1], m[3][3]), CMul(m[2][3], m[3][1])))),
         CMul(m[1][3], CSub(CMul(m[2][1], m[3][2]), CMul(m[2][2], m[3][1]))))

---------------------------------------------------------------------------
(* MobiusTransform.calc_coords                                             *)

\* a bug: the second and third columns of the matrix of b are exchanged
calc_coords_swapped(z, w) ==
    <<Det3(<<<<CMul(z[1], w[1]), w[1], COne>>,
             <<CMul(z[2], w[2]), w[2], COne>>,
             <<CMul(z[3], w[3]), w[3], COne>>>>),
      Det3(<<<<CMul(z[1], w[1]), w[1], z[1]>>,
             <<CMul(z[2], w[2]), w[2], z[2]>>,
             <<CMul(z[3], w[3]), w[3], z[3]>>>>),
      Det3(<<<<z[1], w[1], COne>>,
             <<z[2], w[2], COne>>,
             <<z[3], w[3], COne>>>>),
      Det3(<<<<CMul(z[1], w[1]), z[1], COne>>,
             <<CMul(z[2], w[2]), z[2], COne>>,
             <<CMul(z[3], w[3]), z[3], COne>>>>)>>

calc_coords(z, w) ==
    <<Det3(<<<<CMul(z[1], w[1]), w[1], COne>>,
             <<CMul(z[2], w[2]), w[2], COne>>,
             <<CMul(z[3], w[3]), w[3], COne>>>>),
      Det3(<<<<CMul(z[1], w[1]), z[1], w[1]>>,
             <<CMul(z[2], w[2]), z[2], w[2]>>,
             <<CMul(z[3], w[3]), z[3], w[3]>>>>),
      Det3(<<<<z[1], w[1], COne>>,
             <<z[2], w[2], COne>>,
             <<z[3], w[3], COne>>>>),
      Det3(<<<<CMul(z[1], w[1]), z[1], COne>>,
             <<CMul(z[2], w[2]), z[2], COne>>,
             <<CMul(z[3], w[3]), z[3], COne>>>>)>>

---------------------------------------------------------------------------
(* The control points of __init__, in twentieths of a pixel.               *)
(* 0.3*sin(0.4*pi) = 0.2853 -> 6/20,  0.3*cos(0.4*pi) = 0.0927 -> 2/20,    *)
(* 0.1*cos(0.1*pi) = 0.0951 -> 2/20,  0.1*sin(0.1*pi) = 0.0309 -> 1/20.    *)

zws(height, width) ==
    << \* 1. Clockwise Twist
       << << <<20, 10 * height>>,
             <<10 * width, 16 * height>>,
             <<12 * width, 10 * height>> >>,
          << <<10 * width, 20 * (height - 1)>>,
             <<10 * width + 6 * height, 10 * height + 2 * height>>,
             <<10 * width + 2 * height, 10 * height - 1 * width>> >> >>,
       \* 2. Clockwise half-twist
       << << <<20, 10 * height>>,
             <<10 * width, 16 * height>>,
             <<12 * width, 10 * height>> >>,
          << <<10 * width, 20 * (height - 1)>>,
             <<10 * width + 8 * height, 10 * height>>,
             <<10 * width, 10 * height - 2 * width>> >> >>,
       \* 3. Spread
       << << <<6 * width, 10 * height>>,
             <<10 * width, 14 * height>>,
             <<14 * width, 10 * height>> >>,
          << <<4 * width, 10 * height>>,
             <<10 * width, 16 * height>>,
             <<16 * width, 10 * height>> >> >>,
       \* 4. Spread twist
       << << <<6 * width, 6 * height>>,
             <<12 * width, 16 * height>>,
             <<14 * width, 6 * height>> >>,
          << <<4 * width, 6 * height>>,
             <<12 * width, 18 * height>>,
             <<16 * width, 4 * height>> >> >>,
       \* 5. Counter clockwise twist
       << << <<20, 10 * height>>,
             <<10 * width, 16 * height>>,
             <<12 * width, 10 * height>> >>,
          << <<10 * width, 20 * (height - 1)>>,
             <<10 * width + 8 * height, 10 * height>>,
             <<10 * width, 10 * height - 2 * width>> >> >>,
       \* 6. Counter clockwise half-twist
       << << <<20, 10 * height>>,
             <<10 * width, 16 * height>>,
             <<12 * width, 10 * height>> >>,
          << <<10 * width, 20 * (height - 1)>>,
             <<10 * width + 6 * height, 10 * height + 2 * height>>,
             <<10 * width + 2 * width, 10 * height - 1 * width>> >> >>,
       \* 7. Inverse
       << << <<20, 10 * height>>,
             <<10 * width, 18 * height>>,
             <<20 * (width - 1), 10 * height>> >>,
          << <<20 * (width - 1), 10 * height>>,
             <<10 * width, 2 * height>>,
             <<20, 10 * height>> >> >>,
       \* 8. Inverse spread
       << << <<2 * width, 10 * height>>,
             <<10 * width, 16 * height>>,
             <<18 * width, 10 * height>> >>,
          << <<20 * (width - 1), 10 * height>>,
             <<10 * width, 2 * height>>,
             <<20, 10 * height>> >> >> >>

---------------------------------------------------------------------------
(* Complex division.  A quotient is a fraction [n, d] of complex numbers;  *)
(* it is finite iff d is not zero.                                         *)

Q(x) == [n |-> x, d |-> COne]
IsFinite(x) == x.d # CZero
QAdd(x, y) == [n |-> CAdd(CMul(x.n, y.d), CMul(y.n, x.d)), d |-> CMul(x.d, y.d)]
QSub(x, y) == [n |-> CSub(CMul(x.n, y.d), CMul(y.n, x.d)), d |-> CMul(x.d, y.d)]
QMul(x, y) == [n |-> CMul(x.n, y.n), d |-> CMul(x.d, y.d)]
QNeg(x) == [n |-> CNeg(x.n), d |-> x.d]
QDiv(x, y) ==
    [n |-> CMul(x.n, y.d),
     d |-> IF IsFinite(y) THEN CMul(x.d, y.n) ELSE CZero]
\* x and y are the same number (both finite)
QEq(x, y) == IsFinite(x) /\ IsFinite(y) /\ CMul(x.n, y.d) = CMul(y.n, x.d)

(* numpy.real and numpy.imag of a quotient.  The part is held as the        *)
(* quotient it is taken of: the real part of n/d is Re(n * conj(d)) / |d|^2. *)
Real(w) == [part |-> "real", of |-> w]
Imag(w) == [part |-> "imag", of |-> w]

---------------------------------------------------------------------------
(* MobiusTransform.shift_func                                              *)

\* a bug: b is added where the inverse map subtracts it
inverse_mobius_plus_b(abcd, z) ==
    QDiv(QAdd(QMul(Q(abcd[4]), z), Q(abcd[2])),
         QAdd(QMul(QNeg(Q(abcd[3])), z), Q(abcd[1])))

\* line 125: w = (d * z - b) / (-c * z + a)
inverse_mobius(abcd, z) ==
    QDiv(QSub(QMul(Q(abcd[4]), z), Q(abcd[2])),
         QAdd(QMul(QNeg(Q(abcd[3])), z), Q(abcd[1])))

Raised(e) == [exc |-> e, val |-> <<>>]
Returned(v) == [exc |-> "", val |-> v]

(* coords is the tuple of an output coordinate (coords[0] of the source is *)
(* coords[1] here).  coords[1] and coords[2] of the source do not exist    *)
(* for a shorter tuple: Python raises IndexError.                          *)
shift_func(coords, abcd) ==
    IF Len(coords) < 3
    THEN Raised("IndexError")
    ELSE LET w == inverse_mobius(abcd, Q(<<coords[1], coords[2]>>))
         IN  Returned(<<Real(w), Imag(w), coords[3]>>)

---------------------------------------------------------------------------
(* Bounds of the model.                                                    *)

MaxSide == 2      \* heights and widths are 0 .. MaxSide
UGrid == 2        \* probabilities and uniform draws are multiples of 1/UGrid
MaxDim == 3       \* a sample has 1 .. MaxDim dimensions
MaxCalls == 2     \* __call__ is entered at most MaxCalls times
Callers == {"t1", "t2"}

(* Defaults of __init__'s keyword arguments.                               *)
DefaultCval == 127
DefaultOrder == 2
DefaultMode == "constant"

Sides == 0 .. MaxSide
\* image_size: <<v>> is the int v (a square), <<h, w>> the pair (h, w) of an
\* image that is not square
ImageSizes ==
    {<<v>> : v \in Sides} \cup {hw \in Sides \X Sides : hw[1] # hw[2]}
\* p, in units of 1/UGrid: from below 0 to above 1
Probabilities == (0 - 1) .. (UGrid + 1)
\* numpy.random.uniform(): a value of [0, 1), in units of 1/UGrid
Uniforms == 0 .. (UGrid - 1)
\* numpy.random.randint(0, 8)
Indices == 0 .. 7

Height(image_size) == image_size[1]
Width(image_size) == IF Len(image_size) = 1 THEN image_size[1] ELSE image_size[2]

NoInstance ==
    [built |-> FALSE, p |-> 0, mode |-> "", cval |-> 0, order |-> 0, abcds |-> <<>>]
IdleCall == [pc |-> "idle", ndim |-> 0, k |-> 0, ret |-> "", drawn |-> <<>>]
NoProbe == [kind |-> "none"]

---------------------------------------------------------------------------
(* scipy.ndimage.geometric_transform, as __call__ uses it: the mapping is  *)
(* called with every coordinate of the output, whose shape is the          *)
(* sample's, and must return at least as many components as the input has  *)
(* dimensions.  The sample has side 2 along every dimension.               *)

Coords(ndim) == [1 .. ndim -> 0 .. 1]

geometric_transform(ndim, abcd) ==
    IF \A c \in Coords(ndim) :
          LET mapped == shift_func(c, abcd)
          IN  mapped.exc = "" /\ Len(mapped.val) >= ndim
    THEN "resampled"
    ELSE "IndexError"

---------------------------------------------------------------------------
(* MobiusTransform.__init__                                                *)

Init ==
    /\ args \in [p : Probabilities, image_size : ImageSizes]
    /\ inst = NoInstance
    /\ calls = [c \in Callers |-> IdleCall]
    /\ rng = [uniform |-> 0, randint |-> 0]
    /\ probe = NoProbe

Construct ==
    /\ ~inst.built
    /\ LET height == Height(args.image_size)
           width == Width(args.image_size)
           zw == zws(height, width)
       IN  inst' = [built |-> TRUE,
                    p |-> args.p,
                    mode |-> DefaultMode,
                    cval |-> DefaultCval,
                    order |-> DefaultOrder,
                    abcds |-> [k \in 1 .. 8 |-> calc_coords(zw[k][1], zw[k][2])]]
    /\ UNCHANGED <<args, calls, rng, probe>>

---------------------------------------------------------------------------
(* MobiusTransform.__call__, in the steps callers can interleave at.       *)

Entered == rng.uniform

\* a bug: the index is drawn before the test, so a skipped call consumes it too
DrawUniform_eager(c) ==
    /\ inst.built
    /\ calls[c].pc = "idle"
    /\ Entered < MaxCalls
    /\ \E ndim \in 1 .. MaxDim, u \in Uniforms, k \in Indices :
          calls' = [calls EXCEPT ![c] =
                      IF u > inst.p
                      THEN [pc |-> "done", ndim |-> ndim, k |-> k,
                            ret |-> "sample", drawn |-> <<"uniform", "randint">>]
                      ELSE [pc |-> "resample", ndim |-> ndim, k |-> k,
                            ret |-> "", drawn |-> <<"uniform", "randint">>]]
    /\ rng' = [rng EXCEPT !.uniform = @ + 1, !.randint = @ + 1]
    /\ UNCHANGED <<inst, args, probe>>

\* lines 129-130: the uniform draw, and the return of the sample itself
DrawUniform(c) ==
    /\ inst.built
    /\ calls[c].pc = "idle"
    /\ Entered < MaxCalls
    /\ \E ndim \in 1 .. MaxDim, u \in Uniforms :
          calls' = [calls EXCEPT ![c] =
                      IF u > inst.p
                      THEN [pc |-> "done", ndim |-> ndim, k |-> 0,
                            ret |-> "sample", drawn |-> <<"uniform">>]
                      ELSE [pc |-> "pick", ndim |-> ndim, k |-> 0,
                            ret |-> "", drawn |-> <<"uniform">>]]
    /\ rng' = [rng EXCEPT !.uniform = @ + 1]
    /\ UNCHANGED <<inst, args, probe>>

\* a bug: the drawn coefficients are moved to the front of self.abcds
PickIndex_shuffling(c) ==
    /\ calls[c].pc = "pick"
    /\ \E k \in Indices :
          /\ calls' = [calls EXCEPT ![c].pc = "resample",
                                    ![c].k = 0,
                                    ![c].drawn = Append(@, "randint")]
          /\ inst' = [inst EXCEPT !.abcds[1] = inst.abcds[k + 1],
                                  !.abcds[k + 1] = inst.abcds[1]]
    /\ rng' = [rng EXCEPT !.randint = @ + 1]
    /\ UNCHANGED <<args, probe>>

\* lines 131-132: the draw of the index of the coefficients
PickIndex(c) ==
    /\ calls[c].pc = "pick"
    /\ \E k \in Indices :
          calls' = [calls EXCEPT ![c].pc = "resample",
                                 ![c].k = k,
                                 ![c].drawn = Append(@, "randint")]
    /\ rng' = [rng EXCEPT !.randint = @ + 1]
    /\ UNCHANGED <<inst, args, probe>>

\* lines 133-139: the resampling, and the return of its result
Resample(c) ==
    /\ calls[c].pc = "resample"
    /\ calls' = [calls EXCEPT ![c].pc = "done",
                              ![c].ret = geometric_transform(calls[c].ndim,
                                             inst.abcds[calls[c].k + 1])]
    /\ UNCHANGED <<inst, args, rng, probe>>

\* the caller has its result (or its exception) and may call again
Return(c) ==
    /\ calls[c].pc = "done"
    /\ calls' = [calls EXCEPT ![c] = IdleCall]
    /\ UNCHANGED <<inst, args, rng, probe>>

Next ==
    \/ Construct
    \/ \E c \in Callers : DrawUniform(c)
    \/ \E c \in Callers : PickIndex(c)
    \/ \E c \in Callers : Resample(c)
    \/ \E c \in Callers : Return(c)

Spec == Init /\ [][Next]_vars

---------------------------------------------------------------------------
(* The pure functions, applied to inputs drawn from bounded sets.          *)

PtMax == 1
MaxLen == 4

\* complex numbers with small integer parts
Points == {<<x, y>> : x \in (0 - 1) .. PtMax, y \in 0 .. 1}
Triples == {<<p1, p2, p3>> : p1 \in Points, p2 \in Points, p3 \in Points}
\* the control points __init__ builds for the valid sizes of the model
Predefined ==
    {zws(h, w)[k] : h \in 1 .. MaxSide, w \in 1 .. MaxSide, k \in 1 .. 8}
Quadruples == {<<a, b, c, d>> : a \in Points, b \in Points, c \in Points, d \in Points}
\* coordinate tuples of 1 .. MaxLen components
CoordTuples == UNION {[1 .. n -> 0 .. 1] : n \in 1 .. MaxLen}

Unused ==
    /\ inst = NoInstance
    /\ args = [p |-> 0, image_size |-> <<0>>]
    /\ calls = [c \in Callers |-> IdleCall]
    /\ rng = [uniform |-> 0, randint |-> 0]

\* calc_coords(z, w)
InitCalc ==
    /\ Unused
    /\ \E zw \in {<<z, w>> : z \in Triples, w \in Triples} \cup Predefined :
          probe = [kind |-> "calc", stage |-> "in",
                   z |-> zw[1], w |-> zw[2], abcd |-> <<>>]

ApplyCalc ==
    /\ probe.kind = "calc"
    /\ probe.stage = "in"
    /\ probe' = [probe EXCEPT !.stage = "out",
                              !.abcd = calc_coords(probe.z, probe.w)]
    /\ UNCHANGED <<inst, args, calls, rng>>

SpecCalc == InitCalc /\ [][ApplyCalc]_vars

(* The forward map of the coefficients, f(z) = (a*z + b) / (c*z + d).  The *)
(* program never evaluates it: it is the map whose inverse shift_func      *)
(* applies.                                                                *)
Forward(abcd, z) ==
    QDiv(QAdd(QMul(Q(abcd[1]), z), Q(abcd[2])),
         QAdd(QMul(Q(abcd[3]), z), Q(abcd[4])))

\* the inverse map of shift_func, applied to the image f(z) of a point z
InitTrip ==
    /\ Unused
    /\ \E abcd \in Quadruples, z \in Points :
          probe = [kind |-> "trip", stage |-> "in", abcd |-> abcd, z |-> z,
                   fz |-> Forward(abcd, Q(z)), back |-> Q(CZero)]

ApplyInverse ==
    /\ probe.kind = "trip"
    /\ probe.stage = "in"
    /\ probe' = [probe EXCEPT !.stage = "out",
                              !.back = inverse_mobius(probe.abcd, probe.fz)]
    /\ UNCHANGED <<inst, args, calls, rng>>

SpecTrip == InitTrip /\ [][ApplyInverse]_vars

\* shift_func(coords, abcd)
InitShift ==
    /\ Unused
    /\ \E coords \in CoordTuples, abcd \in Quadruples :
          probe = [kind |-> "shift", stage |-> "in", coords |-> coords,
                   abcd |-> abcd, out |-> Raised("")]

ApplyShift ==
    /\ probe.kind = "shift"
    /\ probe.stage = "in"
    /\ probe' = [probe EXCEPT !.stage = "out",
                              !.out = shift_func(probe.coords, probe.abcd)]
    /\ UNCHANGED <<inst, args, calls, rng>>

SpecShift == InitShift /\ [][ApplyShift]_vars

---------------------------------------------------------------------------
(* Properties.                                                             *)

CalcDone == probe.kind = "calc" /\ probe.stage = "out"
TripDone == probe.kind = "trip" /\ probe.stage = "out"
ShiftDone == probe.kind = "shift" /\ probe.stage = "out"

\* the arguments of __init__ are not a configuration the interface allows
InvalidConfiguration ==
    \/ Height(args.image_size) <= 0
    \/ Width(args.image_size) <= 0
    \/ args.p < 0
    \/ args.p > UGrid

\* a constructed instance of an allowed configuration
ValidInstance == inst.built /\ ~InvalidConfiguration

\* the denominator c*z + d of the forward map at z
ForwardDen(abcd, z) == CAdd(CMul(abcd[3], z), abcd[4])

(* C1: the coefficients calc_coords(z, w) returns satisfy                  *)
(* a*z_i + b = w_i * (c*z_i + d) for each of the three control points, for *)
(* every pair of triples, the predefined pairs among them.                 *)
C1_ControlPointsMapped ==
    CalcDone =>
        \A i \in 1 .. 3 :
            CAdd(CMul(probe.abcd[1], probe.z[i]), probe.abcd[2])
              = CMul(probe.w[i], ForwardDen(probe.abcd, probe.z[i]))

\* calc_coords has run on the Spread pair of a 1 x 1 image, and no forward
\* denominator vanishes at its control points
C1_Witness ==
    /\ CalcDone
    /\ <<probe.z, probe.w>> = zws(1, 1)[3]
    /\ probe.abcd[2] # CZero
    /\ \A i \in 1 .. 3 : ForwardDen(probe.abcd, probe.z[i]) # CZero

(* C2: the inverse map of shift_func, applied to f(z), gives z back,       *)
(* unless the forward denominator c*z + d or the inverse denominator       *)
(* -c*f(z) + a is 0.                                                       *)
C2_RoundTrip ==
    TripDone =>
        LET inverseDen ==
                QAdd(QMul(QNeg(Q(probe.abcd[3])), probe.fz), Q(probe.abcd[1]))
        IN  (/\ ForwardDen(probe.abcd, probe.z) # CZero
             /\ inverseDen.n # CZero)
            => QEq(probe.back, Q(probe.z))

\* a round trip through a map with c # 0 and b # 0, from a point that is not 0
C2_Witness ==
    /\ TripDone
    /\ probe.abcd[2] # CZero
    /\ probe.abcd[3] # CZero
    /\ probe.z # CZero
    /\ ForwardDen(probe.abcd, probe.z) # CZero
    /\ QEq(probe.back, Q(probe.z))

(* C3: with p = 0 no call gets past the uniform draw: every call returns   *)
(* the sample itself and the resampler is never invoked.                   *)
C3_IdentityAtZero ==
    (ValidInstance /\ inst.p = 0) =>
        \A c \in Callers :
            /\ calls[c].pc \notin {"pick", "resample"}
            /\ calls[c].pc = "done" => calls[c].ret = "sample"

(* C4: for every coordinate tuple of length n >= 2 the inverse coordinate  *)
(* map returns a tuple of length n: (Re(w), Im(w)) followed by the         *)
(* input's components 3 .. n.                                              *)
C4_TrailingPassthrough ==
    (ShiftDone /\ Len(probe.coords) >= 2) =>
        /\ probe.out.exc = ""
        /\ Len(probe.out.val) = Len(probe.coords)
        /\ LET w == inverse_mobius(probe.abcd,
                                   Q(<<probe.coords[1], probe.coords[2]>>))
           IN  probe.out.val[1] = Real(w) /\ probe.out.val[2] = Imag(w)
        /\ \A i \in 3 .. Len(probe.coords) : probe.out.val[i] = probe.coords[i]

(* C5: construction with a non-positive height or width, or with p outside *)
(* [0, 1], yields no instance.                                             *)
C5_InvalidConfigurationRejected == InvalidConfiguration => ~inst.built

(* C6: a call with a sample of fewer than 2 dimensions ends in an          *)
(* InvalidInput error, whatever the draws; it returns no value.            *)
C6_InvalidInputRaised ==
    ValidInstance =>
        \A c \in Callers :
            (calls[c].pc = "done" /\ calls[c].ndim < 2)
                => calls[c].ret = "InvalidInput"

(* C7: once constructed, the instance's fields p, mode, cval, order and    *)
(* abcds are left unchanged by every step of every call, however the calls *)
(* of the callers interleave; so are the constructor's arguments.          *)
C7_InstanceUnchanged ==
    [][inst.built => (inst' = inst /\ args' = args)]_vars

\* one caller has its resampled result while the other is inside its call,
\* and the random source has served both
C7_Witness ==
    /\ ValidInstance
    /\ calls["t1"].pc = "done"
    /\ calls["t1"].ret = "resampled"
    /\ calls["t2"].pc = "resample"
    /\ rng.randint = 2

(* C8, as stated: every call consumes exactly two draws, the uniform one   *)
(* and then the index, whether the warp is applied or skipped.             *)
C8_TwoDrawsEveryCall ==
    \A c \in Callers :
        calls[c].pc = "done" => calls[c].drawn = <<"uniform", "randint">>

(* C8, amended: every call consumes one uniform draw; a call that skips    *)
(* the warp consumes nothing more, and a call that applies it consumes one *)
(* more draw, of an index of 0 .. 7.                                       *)
C8_DrawsPerCall ==
    \A c \in Callers :
        calls[c].pc = "done" =>
            IF calls[c].ret = "sample"
            THEN calls[c].drawn = <<"uniform">>
            ELSE calls[c].drawn = <<"uniform", "randint">> /\ calls[c].k \in 0 .. 7

\* one call has ended skipped and one has ended warped
C8_Witness ==
    /\ ValidInstance
    /\ calls["t1"].pc = "done"
    /\ calls["t1"].ret = "sample"
    /\ calls["t2"].pc = "done"
    /\ calls["t2"].ret = "resampled"

PairwiseDistinct(t) == t[1] # t[2] /\ t[1] # t[3] /\ t[2] # t[3]

(* a*d - b*c # 0, decided on the residues of a, b, c, d: the moduli are    *)
(* pairwise coprime and their product exceeds every |a*d - b*c| of the     *)
(* model, so a*d - b*c is 0 iff it is 0 modulo each of them.               *)
Moduli == {46337, 46336, 46335}
MulMod(x, y, m) ==
    <<((((x[1] % m) * (y[1] % m)) % m) - (((x[2] % m) * (y[2] % m)) % m)) % m,
      ((((x[1] % m) * (y[2] % m)) % m) + (((x[2] % m) * (y[1] % m)) % m)) % m>>
DetNonZero(abcd) ==
    \E m \in Moduli : MulMod(abcd[1], abcd[4], m) # MulMod(abcd[2], abcd[3], m)

BuiltPoints == zws(Height(args.image_size), Width(args.image_size))

(* C9: for every positive height and width, each of the 8 control-point    *)
(* pairs has three distinct source points and three distinct destination   *)
(* points, and each of the 8 coefficient tuples has a*d - b*c # 0.         *)
C9_NonDegenerate ==
    ValidInstance =>
        \A k \in 1 .. 8 :
            /\ PairwiseDistinct(BuiltPoints[k][1])
            /\ PairwiseDistinct(BuiltPoints[k][2])
            /\ inst.abcds[k] # <<CZero, CZero, CZero, CZero>>
            /\ DetNonZero(inst.abcds[k])

(* C10: the 8 control-point pairs are pairwise different, and so are the   *)
(* 8 transforms an index selects among.                                    *)
C10_EightDistinct ==
    ValidInstance =>
        \A j \in 1 .. 8, k \in 1 .. 8 :
            j < k => (BuiltPoints[j] # BuiltPoints[k] /\ inst.abcds[j] # inst.abcds[k])

===========================================================================
